---- MODULE Spec2Model ----
(***************************************************************************)
(* CMIP-IMR (big-project1): log ingestion, integration of department       *)
(* Petri nets, the CE-PNR repair operators and the repair loop of          *)
(* run_cmip_imr.                                                           *)
(*                                                                         *)
(* Python objects with identity (pm4py places and transitions: __eq__ and  *)
(* __hash__ are id()) are records carrying an object id `oid`; two nodes   *)
(* are the same object iff the records are equal.  Names are sequences of  *)
(* tokens, so that f"{dept}:{name}" is a concatenation and                 *)
(* name.startswith("RES:") a prefix test.  net.arcs is a set of arc        *)
(* objects hashed by id(), i.e. a bag of (source, target) pairs.  Mutable  *)
(* nets and markings live in a heap and are held by reference, so that     *)
(* aliasing (current_net = n0_net) is visible.                             *)
(***************************************************************************)
EXTENDS Integers, Sequences, FiniteSets, Bags, TLC

VARIABLES pc, log, params, metadata, dept_nets, heap, n0, current, best,
          iteration, result, trace, layout, answer, evaluated

vars == <<pc, log, params, metadata, dept_nets, heap, n0, current, best,
          iteration, result, trace, layout, answer, evaluated>>

(***************************************************************************)
(* Bounds of the model                                                     *)
(***************************************************************************)
MaxIter == 2
\* the number of operator calls of the specification SpecOps
MaxOps == 2
\* the largest token total of the specification SpecEval
MaxTokens == 2
\* the longest log of the specification SpecIngest
MaxEvents == 2
\* the number of apply_ce_pnr calls of the specification SpecRepair
MaxCalls == 1

(***************************************************************************)
(* Generic helpers                                                         *)
(***************************************************************************)
None == "None"

SeqToSet(s) == {s[i] : i \in 1..Len(s)}

InSeq(x, s) == \E i \in 1..Len(s) : s[i] = x

\* every ordering (without repetition) of a finite set
Orderings(S) ==
    {s \in [1..Cardinality(S) -> S] : \A i, j \in 1..Cardinality(S) : i # j => s[i] # s[j]}

RECURSIVE GCD(_, _)
GCD(a, b) == IF b = 0 THEN a ELSE GCD(b, a % b)

\* non-negative rationals <<numerator, denominator>> in lowest terms
Rat(n, d) == LET g == GCD(n, d) IN IF n = 0 THEN <<0, 1>> ELSE <<n \div g, d \div g>>

RatLt(x, y) == x[1] * y[2] < y[1] * x[2]
RatLe(x, y) == x[1] * y[2] <= y[1] * x[2]
RatAbsDiff(x, y) ==
    LET a == x[1] * y[2]
        b == y[1] * x[2]
    IN  Rat(IF a >= b THEN a - b ELSE b - a, x[2] * y[2])

(***************************************************************************)
(* Names: sequences of tokens                                              *)
(***************************************************************************)
Colon == ":"

\* f"{dept}:{local}"
Namespaced(prefix, local) == prefix \o <<Colon>> \o local

MsgPlaceName(msg_id) == Namespaced(<<"MSG">>, <<msg_id>>)
ResPlaceName(res_id) == Namespaced(<<"RES">>, <<res_id>>)
SyncTransName(label) == Namespaced(<<"SYNC">>, <<label>>)

\* name.startswith("RES:")
StartsWithRes(name) == Len(name) >= 2 /\ name[1] = "RES" /\ name[2] = Colon

(***************************************************************************)
(* Event logs (the DataFrame after load_csv_log: list cells parsed, rows   *)
(* sorted by case and timestamp)                                           *)
(***************************************************************************)
Ev(tran, roles, send_msg, rec_msg, req_res, rel_res) ==
    [case_id |-> "c1", tran |-> tran, roles |-> roles, send_msg |-> send_msg,
     rec_msg |-> rec_msg, req_res |-> req_res, rel_res |-> rel_res]

\* E1: a message from A (department X) to B (department Y)
LogE1 == << Ev("A", <<"X">>, <<"m1">>, <<>>, <<>>, <<>>),
            Ev("B", <<"Y">>, <<>>, <<"m1">>, <<>>, <<>>) >>
\* E2: S is carried out by both departments
LogE2 == << Ev("A", <<"X">>, <<>>, <<>>, <<>>, <<>>),
            Ev("S", <<"X", "Y">>, <<>>, <<>>, <<>>, <<>>),
            Ev("B", <<"Y">>, <<>>, <<>>, <<>>, <<>>) >>
\* E3: a resource requested by A and released by B
LogE3 == << Ev("A", <<"X">>, <<>>, <<>>, <<"r1">>, <<>>),
            Ev("B", <<"Y">>, <<>>, <<>>, <<>>, <<"r1">>) >>
\* message, sync activity and resource together
LogMix == << Ev("A", <<"X">>, <<"m1">>, <<>>, <<"r1">>, <<>>),
             Ev("S", <<"X", "Y">>, <<>>, <<>>, <<>>, <<>>),
             Ev("B", <<"Y">>, <<>>, <<"m1">>, <<>>, <<"r1">>) >>
\* a message that is sent and never received, and two resources
LogOneSided == << Ev("A", <<"X">>, <<"m1">>, <<>>, <<"r1", "r2">>, <<>>),
                  Ev("B", <<"X">>, <<>>, <<>>, <<>>, <<"r1">>) >>
\* the sync activity itself sends the message and requests the resource
LogSyncSends == << Ev("S", <<"X", "Y">>, <<"m1">>, <<>>, <<"r1">>, <<>>),
                   Ev("B", <<"Y">>, <<>>, <<"m1">>, <<>>, <<"r1">>) >>

\* a CSV file with the header line and no event
LogEmpty == <<>>

Logs == {LogE1, LogE2, LogE3, LogMix, LogOneSided, LogSyncSends, LogEmpty}

\* the orders sorted() uses
DeptOrder == <<"MSG", "RES", "X", "Y">>
ActOrder == <<"A", "B", "S">>

\* sorted(list(S)) for a set S of strings, under the order `order`
RECURSIVE SortedBy(_, _)
SortedBy(S, order) ==
    IF order = <<>> THEN <<>>
    ELSE IF Head(order) \in S THEN <<Head(order)>> \o SortedBy(S, Tail(order))
    ELSE SortedBy(S, Tail(order))

(***************************************************************************)
(* ingest.py                                                               *)
(***************************************************************************)
extract_departments(df) ==
    SortedBy(UNION {SeqToSet(df[i].roles) : i \in 1..Len(df)}, DeptOrder)

project_by_department(df, department) ==
    SelectSeq(df, LAMBDA row : InSeq(department, row.roles))

identify_sync_tasks(df) ==
    SortedBy({df[i].tran : i \in {j \in 1..Len(df) : Len(df[j].roles) >= 2}}, ActOrder)

\* faulty variant: a later row that lists the id overwrites the task
FirstTask_Last(df, field, id) ==
    LET rows == {i \in 1..Len(df) : InSeq(id, df[i][field])}
    IN  IF rows = {} THEN None
        ELSE df[CHOOSE i \in rows : \A j \in rows : i >= j].tran

\* send_map / recv_map: the task of the first row that lists the id
FirstTask(df, field, id) ==
    LET rows == {i \in 1..Len(df) : InSeq(id, df[i][field])}
    IN  IF rows = {} THEN None
        ELSE df[CHOOSE i \in rows : \A j \in rows : i <= j].tran

MentionedIds(df, fields) ==
    UNION {SeqToSet(df[i][f]) : i \in 1..Len(df), f \in fields}

\* the dict is filled in the iteration order of the set all_msgs, which
\* Python leaves open: every order is a possible result
extract_messages(df) ==
    LET all_msgs == MentionedIds(df, {"send_msg", "rec_msg"})
    IN  {[i \in 1..Len(o) |->
            [id |-> o[i],
             send_task |-> FirstTask(df, "send_msg", o[i]),
             recv_task |-> FirstTask(df, "rec_msg", o[i])]] : o \in Orderings(all_msgs)}

\* req_map[res] / rel_map[res]: the tasks that list the id, in first-seen order
RECURSIVE TaskList(_, _, _)
TaskList(df, field, id) ==
    IF df = <<>> THEN <<>>
    ELSE LET init == TaskList(SubSeq(df, 1, Len(df) - 1), field, id)
             row == df[Len(df)]
         IN  IF InSeq(id, row[field]) /\ ~InSeq(row.tran, init)
             THEN Append(init, row.tran) ELSE init

extract_resources(df) ==
    LET all_res == MentionedIds(df, {"req_res", "rel_res"})
    IN  {[i \in 1..Len(o) |->
            [id |-> o[i],
             req_tasks |-> TaskList(df, "req_res", o[i]),
             rel_tasks |-> TaskList(df, "rel_res", o[i])]] : o \in Orderings(all_res)}

\* the possible metadata dictionaries of load_and_prepare_log
load_and_prepare_log(df) ==
    {[departments |-> extract_departments(df),
      sync_tasks |-> identify_sync_tasks(df),
      messages |-> m,
      resources |-> r,
      total_events |-> Len(df)] : m \in extract_messages(df), r \in extract_resources(df)}

(***************************************************************************)
(* pm4py objects: Place, Transition, PetriNet, Marking                     *)
(***************************************************************************)
Place(oid, name) == [kind |-> "place", oid |-> oid, name |-> name, label |-> None]
Transition(oid, name, label) == [kind |-> "trans", oid |-> oid, name |-> name, label |-> label]

\* a net without nodes; lay is the address layout that decides the order in
\* which loops meet the objects of its sets (see First)
EmptyNet(lay) == [places |-> {}, transitions |-> {}, arcs |-> EmptyBag, layout |-> lay]
EmptyMarking == <<>>

\* Marking is a Counter: marking[place] = n adds or overwrites the key
MarkingSet(marking, place, n) == (place :> n) @@ marking
MarkingDel(marking, place) == [q \in (DOMAIN marking) \ {place} |-> marking[q]]
\* marking[place] of a Counter: 0 for a missing key
Tokens(marking, place) == IF place \in DOMAIN marking THEN marking[place] ELSE 0

Nodes(net) == net.places \cup net.transitions

\* petri_utils.add_arc_from_to: a new Arc object is added to net.arcs; nothing
\* looks for an existing arc with the same ends
add_arc_from_to(fr, to, net) == [net EXCEPT !.arcs = @ (+) SetToBag({<<fr, to>>})]

\* petri_utils.remove_arc: that one arc object leaves net.arcs
remove_arc(net, arc) == [net EXCEPT !.arcs = @ (-) SetToBag({arc})]

\* position of a node among the nodes S, by object id (used to hand out the
\* object ids of copies)
Rank(x, S) == Cardinality({y \in S : y.oid < x.oid})

\* Iteration over a set of places or transitions.  Place and Transition hash
\* by id(), the address of the object, and a set is walked slot by slot of
\* its hash table.  The layout of a net stands for the address layout of the
\* process, which the program does not control: it decides the slot of every
\* object.  Two walks over the same objects in one process meet them in the
\* same order; another process may meet them in another order.
TableSize == 8
Layouts == {1, 7}
Slot(x, lay) == (x.oid * lay) % TableSize

\* the element a loop "for x in S: if ...: found = x; break" stops at, S being
\* the elements that pass the test; objects in the same slot are met in the
\* order they were created
First(S, lay) ==
    CHOOSE x \in S : \A y \in S :
        Slot(x, lay) < Slot(y, lay) \/ (Slot(x, lay) = Slot(y, lay) /\ x.oid <= y.oid)

(***************************************************************************)
(* discovery.py: the inductive-miner oracle                                *)
(***************************************************************************)
\* the activities of a projected log, each once, in first-seen order
RECURSIVE Activities(_)
Activities(df) ==
    IF df = <<>> THEN <<>>
    ELSE LET init == Activities(SubSeq(df, 1, Len(df) - 1))
             a == df[Len(df)].tran
         IN  IF InSeq(a, init) THEN init ELSE Append(init, a)

OracleVariants == {"seq", "tau", "dup"}

InnerPlaceTok == <<"p1", "p2", "p3">>

\* A workflow net for the activities acts = <<a1, ..., an>>:
\*   source -> a1 -> p1 -> a2 -> ... -> an -> sink,
\* "tau" adds a silent transition from source to sink, "dup" a second
\* transition labelled a1 beside the first.  Objects get the ids base+1 ...
OracleNet(acts, variant, base) ==
    LET n == Len(acts)
        pl(i) == Place(base + 1 + i,
                       IF i = 0 THEN <<"source">>
                       ELSE IF i = n THEN <<"sink">> ELSE <<InnerPlaceTok[i]>>)
        tr(i) == Transition(base + n + 1 + i, <<acts[i]>>, acts[i])
        extra == IF variant = "tau" THEN Transition(base + 2 * n + 2, <<"tau">>, None)
                 ELSE Transition(base + 2 * n + 2, <<acts[1], "dup">>, acts[1])
        seqArcs == {<<pl(i - 1), tr(i)>> : i \in 1..n} \cup {<<tr(i), pl(i)>> : i \in 1..n}
        extraArcs == IF variant = "tau" THEN {<<pl(0), extra>>, <<extra, pl(n)>>}
                     ELSE {<<pl(0), extra>>, <<extra, pl(1)>>}
    IN  [net |-> [places |-> {pl(i) : i \in 0..n},
                  transitions |-> {tr(i) : i \in 1..n}
                                  \cup (IF variant = "seq" THEN {} ELSE {extra}),
                  arcs |-> SetToBag(seqArcs \cup (IF variant = "seq" THEN {} ELSE extraArcs))],
         im |-> (pl(0) :> 1),
         fm |-> (pl(n) :> 1),
         size |-> 2 * n + 2]

\* discover_department_net: the projection of a department is never empty
\* (departments are the roles that occur), so the oracle is always asked
discover_department_net(df, department, variant, base) ==
    OracleNet(Activities(project_by_department(df, department)), variant, base)

\* discover_all_department_nets, for one choice of oracle answers
\* variants[i] for departments[i]; the result keeps the dict's insertion order
RECURSIVE discover_all_department_nets(_, _, _, _)
discover_all_department_nets(df, departments, variants, base) ==
    IF departments = <<>> THEN <<>>
    ELSE LET d == discover_department_net(df, Head(departments), Head(variants), base)
         IN  <<[dept |-> Head(departments), net |-> d.net, im |-> d.im, fm |-> d.fm]>>
             \o discover_all_department_nets(df, Tail(departments), Tail(variants),
                                             base + d.size)

(***************************************************************************)
(* discovery.py: merge_petri_nets                                          *)
(* The state of the merge is st = [net, im, fm, next]; next is the next    *)
(* free object id.  A loop over a Python set whose result depends on the   *)
(* iteration order yields the set of all results.                          *)
(***************************************************************************)
\* faulty variant: every department gets a sync transition of its own
ReusesExisting_Never(is_sync, same) == FALSE

\* line 166: a sync transition whose name is already in the integrated net
\* is not created again
ReusesExisting(is_sync, same) == is_sync /\ same # {}

\* lines 160-172: the transitions of one department net, in every order.
\* tm is trans_map restricted to this department, keyed by the local name.
RECURSIVE MergeTransitions(_, _, _, _, _, _, _)
MergeTransitions(dept, todo, all, sync_tasks, base, transitions, tm) ==
    IF todo = {} THEN {[transitions |-> transitions, trans_map |-> tm]}
    ELSE UNION {
        LET is_sync == InSeq(trans.label, sync_tasks)
            new_name == IF is_sync THEN SyncTransName(trans.label)
                        ELSE Namespaced(<<dept>>, trans.name)
            same == {t \in transitions : t.name = new_name}
        IN  IF ReusesExisting(is_sync, same)
            THEN UNION {MergeTransitions(dept, todo \ {trans}, all, sync_tasks, base,
                                         transitions, (trans.name :> existing_trans) @@ tm)
                        : existing_trans \in same}
            ELSE LET new_trans == Transition(base + Rank(trans, all), new_name, trans.label)
                 IN  MergeTransitions(dept, todo \ {trans}, all, sync_tasks, base,
                                      transitions \cup {new_trans},
                                      (trans.name :> new_trans) @@ tm)
        : trans \in todo}

\* faulty variant: the copy of an arc runs the other way
ArcEnds_Reversed(arc, place_map, trans_map) ==
    IF arc[1].kind = "place"
    THEN <<trans_map[arc[2].name], place_map[arc[1].name]>>
    ELSE <<place_map[arc[2].name], trans_map[arc[1].name]>>

\* lines 175-180: <<source, target>> of the copy of an arc
ArcEnds(arc, place_map, trans_map) ==
    IF arc[1].kind = "place"
    THEN <<place_map[arc[1].name], trans_map[arc[2].name]>>
    ELSE <<trans_map[arc[1].name], place_map[arc[2].name]>>

\* lines 174-182: every arc object of the department net is copied
RECURSIVE MergeArcs(_, _, _, _)
MergeArcs(todo, place_map, trans_map, net) ==
    IF todo = EmptyBag THEN net
    ELSE LET arc == CHOOSE a \in BagToSet(todo) : TRUE
             ends == ArcEnds(arc, place_map, trans_map)
         IN  MergeArcs(todo (-) SetToBag({arc}), place_map, trans_map,
                       add_arc_from_to(ends[1], ends[2], net))

\* lines 148-182: one department
MergeDepartment(entry, sync_tasks, st) ==
    LET dnet == entry.net
        new_place(p) == Place(st.next + Rank(p, dnet.places),
                              Namespaced(<<entry.dept>>, p.name))
        place_map == [nm \in {p.name : p \in dnet.places} |->
                         new_place(CHOOSE p \in dnet.places : p.name = nm)]
        im2 == [np \in {new_place(p) : p \in dnet.places \cap DOMAIN entry.im} |->
                   entry.im[CHOOSE p \in dnet.places : new_place(p) = np]] @@ st.im
        fm2 == [np \in {new_place(p) : p \in dnet.places \cap DOMAIN entry.fm} |->
                   entry.fm[CHOOSE p \in dnet.places : new_place(p) = np]] @@ st.fm
        tbase == st.next + Cardinality(dnet.places)
        net2 == [st.net EXCEPT !.places = @ \cup {new_place(p) : p \in dnet.places}]
    IN  {[net |-> MergeArcs(dnet.arcs, place_map, r.trans_map,
                            [net2 EXCEPT !.transitions = r.transitions]),
          im |-> im2, fm |-> fm2,
          next |-> tbase + Cardinality(dnet.transitions)]
         : r \in MergeTransitions(entry.dept, dnet.transitions, dnet.transitions,
                                  sync_tasks, tbase, st.net.transitions, <<>>)}

RECURSIVE MergeDepartments(_, _, _)
MergeDepartments(nets, sync_tasks, st) ==
    IF nets = <<>> THEN {st}
    ELSE UNION {MergeDepartments(Tail(nets), sync_tasks, st2)
                : st2 \in MergeDepartment(Head(nets), sync_tasks, st)}

\* faulty variant: one transition per label, as add_message_places (lines 84-96) does
\* with its trans_by_label dictionary
MessageArcs_OnePerLabel(T, msg, msg_place) ==
    LET senders == {t \in T : t.label = msg.send_task}
        receivers == {t \in T : t.label = msg.recv_task}
    IN  SetToBag({<<trans, msg_place>> : trans \in {t \in senders : t = CHOOSE u \in senders : TRUE}})
        (+) SetToBag({<<msg_place, trans>> : trans \in {t \in receivers : t = CHOOSE u \in receivers : TRUE}})

\* lines 190-194: trans.label == send_task is also true of a silent
\* transition (label None) when the message has no sender (send_task None)
MessageArcs(T, msg, msg_place) ==
    SetToBag({<<trans, msg_place>> : trans \in {t \in T : t.label = msg.send_task}})
    (+) SetToBag({<<msg_place, trans>> : trans \in {t \in T : t.label = msg.recv_task}})

\* lines 184-194
RECURSIVE MergeMessages(_, _)
MergeMessages(messages, st) ==
    IF messages = <<>> THEN st
    ELSE LET msg == Head(messages)
             msg_place == Place(st.next, MsgPlaceName(msg.id))
             arcs == MessageArcs(st.net.transitions, msg, msg_place)
         IN  MergeMessages(Tail(messages),
                 [st EXCEPT !.net.places = @ \cup {msg_place},
                            !.net.arcs = @ (+) arcs,
                            !.next = @ + 1])

\* faulty variant: the release arcs are drawn for the requesting activities
ResourceArcs_ReleaseByRequest(T, res, res_place) ==
    SetToBag({<<res_place, trans>> : trans \in {t \in T : InSeq(t.label, res.req_tasks)}})
    (+) SetToBag({<<trans, res_place>> : trans \in {t \in T : InSeq(t.label, res.req_tasks)}})

\* lines 204-208
ResourceArcs(T, res, res_place) ==
    SetToBag({<<res_place, trans>> : trans \in {t \in T : InSeq(t.label, res.req_tasks)}})
    (+) SetToBag({<<trans, res_place>> : trans \in {t \in T : InSeq(t.label, res.rel_tasks)}})

\* lines 196-208
RECURSIVE MergeResources(_, _)
MergeResources(resources, st) ==
    IF resources = <<>> THEN st
    ELSE LET res == Head(resources)
             res_place == Place(st.next, ResPlaceName(res.id))
             arcs == ResourceArcs(st.net.transitions, res, res_place)
         IN  MergeResources(Tail(resources),
                 [st EXCEPT !.net.places = @ \cup {res_place},
                            !.net.arcs = @ (+) arcs,
                            !.im = MarkingSet(@, res_place, 1),
                            !.next = @ + 1])

\* the possible results [net, im, fm, next] of merge_petri_nets
merge_petri_nets(nets, messages, resources, sync_tasks, next, lay) ==
    {MergeResources(resources, MergeMessages(messages, st))
     : st \in MergeDepartments(nets, sync_tasks,
                  [net |-> EmptyNet(lay), im |-> EmptyMarking, fm |-> EmptyMarking, next |-> next])}

(***************************************************************************)
(* repair.py: the repair operators.  Each works on the net and marking     *)
(* objects it is given; here it maps their values (and the next free       *)
(* object id) to the set of possible values afterwards.  "The first        *)
(* transition with the label" in a loop over the set net.transitions is    *)
(* First of the transitions with the label.                                *)
(***************************************************************************)
Rep(op, what) == [op |-> op, what |-> what]

\* faulty variant: the test for an existing arc always fails
HasArc_Never(net, fr, to) == FALSE

HasArc(net, fr, to) == CopiesIn(<<fr, to>>, net.arcs) > 0

\* lines 200-214 and 216-230: one end of one message.  st = [net, next, repairs]
RepairMessageEnd(st, msg_place, task, sending) ==
    IF task = None THEN {st}
    ELSE LET cands == {t \in st.net.transitions : t.label = task}
         IN  IF cands = {} THEN {st}
             ELSE {LET fr == IF sending THEN trans ELSE msg_place
                       to == IF sending THEN msg_place ELSE trans
                   IN  IF HasArc(st.net, fr, to) THEN st
                       ELSE [st EXCEPT !.net = add_arc_from_to(fr, to, @),
                                       !.repairs = Append(@, Rep(IF sending THEN "add_send_arc"
                                                                 ELSE "add_recv_arc", msg_place.name))]
                   : trans \in {First(cands, st.net.layout)}}

\* lines 187-230: one message
RepairMessage(st, msg) ==
    LET msg_place_name == MsgPlaceName(msg.id)
        named == {p \in st.net.places : p.name = msg_place_name}
        created == Place(st.next, msg_place_name)
        with_place == IF named = {}
                      THEN {[st |-> [st EXCEPT !.net.places = @ \cup {created},
                                               !.next = @ + 1,
                                               !.repairs = Append(@, Rep("create_msg_place", msg_place_name))],
                             msg_place |-> created]}
                      ELSE {[st |-> st, msg_place |-> p] : p \in {First(named, st.net.layout)}}
    IN  UNION {UNION {RepairMessageEnd(s2, w.msg_place, msg.recv_task, FALSE)
                      : s2 \in RepairMessageEnd(w.st, w.msg_place, msg.send_task, TRUE)}
               : w \in with_place}

RECURSIVE RepairMessages(_, _)
RepairMessages(messages, st) ==
    IF messages = <<>> THEN {st}
    ELSE UNION {RepairMessages(Tail(messages), s2) : s2 \in RepairMessage(st, Head(messages))}

\* the possible [net, next, repairs] after repair_message_arcs(net, messages)
repair_message_arcs(net, messages, next) ==
    RepairMessages(messages, [net |-> net, next |-> next, repairs |-> <<>>])

\* lines 259-273 and 275-289: the tasks of one side of one resource.
\* st = [net, im, next, repairs]
RECURSIVE RepairResourceTasks(_, _, _, _)
RepairResourceTasks(st, res_place, tasks, requesting) ==
    IF tasks = <<>> THEN {st}
    ELSE LET task == Head(tasks)
             cands == {t \in st.net.transitions : t.label = task}
             after == IF cands = {} THEN {st}
                      ELSE {LET fr == IF requesting THEN res_place ELSE trans
                                to == IF requesting THEN trans ELSE res_place
                            IN  IF HasArc(st.net, fr, to) THEN st
                                ELSE [st EXCEPT !.net = add_arc_from_to(fr, to, @),
                                                !.repairs = Append(@, Rep(IF requesting THEN "add_req_arc"
                                                                          ELSE "add_rel_arc", res_place.name))]
                            : trans \in {First(cands, st.net.layout)}}
         IN  UNION {RepairResourceTasks(s2, res_place, Tail(tasks), requesting) : s2 \in after}

\* faulty variant: a resource whose place is missing is passed over
RepairResource_NoCreate(st, res, capacity) ==
    LET named == {p \in st.net.places : p.name = ResPlaceName(res.id)}
        res_place == First(named, st.net.layout)
    IN  IF named = {} THEN {st}
        ELSE UNION {RepairResourceTasks(s2, res_place, res.rel_tasks, FALSE)
                    : s2 \in RepairResourceTasks(st, res_place, res.req_tasks, TRUE)}

\* lines 245-289: one resource
RepairResource(st, res, capacity) ==
    LET res_place_name == ResPlaceName(res.id)
        named == {p \in st.net.places : p.name = res_place_name}
        created == Place(st.next, res_place_name)
        with_place == IF named = {}
                      THEN {[st |-> [st EXCEPT !.net.places = @ \cup {created},
                                               !.im = MarkingSet(@, created, capacity),
                                               !.next = @ + 1,
                                               !.repairs = Append(@, Rep("create_res_place", res_place_name))],
                             res_place |-> created]}
                      ELSE {[st |-> st, res_place |-> p] : p \in {First(named, st.net.layout)}}
    IN  UNION {UNION {RepairResourceTasks(s2, w.res_place, res.rel_tasks, FALSE)
                      : s2 \in RepairResourceTasks(w.st, w.res_place, res.req_tasks, TRUE)}
               : w \in with_place}

RECURSIVE RepairResources(_, _, _)
RepairResources(resources, st, capacity) ==
    IF resources = <<>> THEN {st}
    ELSE UNION {RepairResources(Tail(resources), s2, capacity)
                : s2 \in RepairResource(st, Head(resources), capacity)}

\* the possible [net, im, next, repairs] after
\* repair_resource_arcs(net, resources, initial_marking, capacity)
repair_resource_arcs(net, resources, initial_marking, capacity, next) ==
    RepairResources(resources,
        [net |-> net, im |-> initial_marking, next |-> next, repairs |-> <<>>], capacity)

\* lines 308-317: the arcs of one secondary are re-created at the primary
\* and removed, then the secondary leaves net.transitions
RECURSIVE RedirectArcs(_, _, _, _)
RedirectArcs(todo, primary, secondary, net) ==
    IF todo = EmptyBag THEN net
    ELSE LET arc == CHOOSE a \in BagToSet(todo) : TRUE
             rest == todo (-) SetToBag({arc})
         IN  IF arc[1] = secondary
             THEN RedirectArcs(rest, primary, secondary,
                               remove_arc(add_arc_from_to(primary, arc[2], net), arc))
             ELSE IF arc[2] = secondary
             THEN RedirectArcs(rest, primary, secondary,
                               remove_arc(add_arc_from_to(arc[1], primary, net), arc))
             ELSE RedirectArcs(rest, primary, secondary, net)

RECURSIVE MergeSecondaries(_, _, _)
MergeSecondaries(secondaries, primary, net) ==
    IF secondaries = {} THEN net
    ELSE LET secondary == CHOOSE t \in secondaries : TRUE
             moved == RedirectArcs(net.arcs, primary, secondary, net)
         IN  MergeSecondaries(secondaries \ {secondary}, primary,
                              [moved EXCEPT !.transitions = @ \ {secondary}])

\* faulty variant: the other transitions are deleted with their arcs
RepairSyncTask_NoRedirect(st, sync_task) ==
    LET sync_trans == {t \in st.net.transitions : t.label = sync_task}
        primary == First(sync_trans, st.net.layout)
        gone == sync_trans \ {primary}
        kept == {arc \in BagToSet(st.net.arcs) : arc[1] \notin gone /\ arc[2] \notin gone}
    IN  IF Cardinality(sync_trans) > 1
        THEN {[net |-> [st.net EXCEPT !.transitions = @ \ gone,
                                      !.arcs = [arc \in kept |-> st.net.arcs[arc]]],
               repairs |-> Append(st.repairs, Rep("merge_sync", <<sync_task>>))]}
        ELSE {st}

\* lines 302-319: one sync task; sync_trans[0] is the first transition met
RepairSyncTask(st, sync_task) ==
    LET sync_trans == {t \in st.net.transitions : t.label = sync_task}
    IN  IF Cardinality(sync_trans) > 1
        THEN {[net |-> MergeSecondaries(sync_trans \ {primary}, primary, st.net),
               repairs |-> Append(st.repairs, Rep("merge_sync", <<sync_task>>))]
              : primary \in {First(sync_trans, st.net.layout)}}
        ELSE {st}

RECURSIVE RepairSyncTasks(_, _)
RepairSyncTasks(sync_tasks, st) ==
    IF sync_tasks = <<>> THEN {st}
    ELSE UNION {RepairSyncTasks(Tail(sync_tasks), s2) : s2 \in RepairSyncTask(st, Head(sync_tasks))}

\* the possible [net, repairs] after repair_sync_tasks(net, sync_tasks)
repair_sync_tasks(net, sync_tasks) ==
    RepairSyncTasks(sync_tasks, [net |-> net, repairs |-> <<>>])

\* faulty variant: only the arcs leaving the place are removed
ArcsToRemove_OutgoingOnly(net, place) ==
    {arc \in BagToSet(net.arcs) : arc[1] = place}

\* line 338
ArcsToRemove(net, place) ==
    {arc \in BagToSet(net.arcs) : arc[1] = place \/ arc[2] = place}

\* lines 337-344: one resource place
RECURSIVE RemovePlaces(_, _)
RemovePlaces(places_to_remove, st) ==
    IF places_to_remove = {} THEN st
    ELSE LET place == CHOOSE p \in places_to_remove : TRUE
             arcs_to_remove == ArcsToRemove(st.net, place)
             kept == [arc \in BagToSet(st.net.arcs) \ arcs_to_remove |-> st.net.arcs[arc]]
         IN  RemovePlaces(places_to_remove \ {place},
                 [net |-> [st.net EXCEPT !.arcs = kept, !.places = @ \ {place}],
                  im |-> IF place \in DOMAIN st.im THEN MarkingDel(st.im, place) ELSE st.im,
                  repairs |-> Append(st.repairs, Rep("remove_res_place", place.name))])

\* [net, im, repairs] after remove_resource_constraints(net, initial_marking);
\* the order of the repairs list follows the set's iteration order and is
\* fixed here (only its length is read)
remove_resource_constraints(net, initial_marking) ==
    RemovePlaces({place \in net.places : StartsWithRes(place.name)},
                 [net |-> net, im |-> initial_marking, repairs |-> <<>>])

\* lines 358-365
RECURSIVE AdjustCapacities(_, _, _)
AdjustCapacities(resources, st, capacity) ==
    IF resources = <<>> THEN {st}
    ELSE LET res_place_name == ResPlaceName(Head(resources).id)
             named == {p \in st.net.places : p.name = res_place_name}
         IN  IF named = {} THEN AdjustCapacities(Tail(resources), st, capacity)
             ELSE UNION {AdjustCapacities(Tail(resources),
                             [st EXCEPT !.im = MarkingSet(@, place, capacity),
                                        !.repairs = Append(@, Rep("adjust_capacity", res_place_name))],
                             capacity)
                         : place \in {First(named, st.net.layout)}}

\* the possible [net, im, repairs] after
\* adjust_resource_capacity(net, initial_marking, resources, capacity)
adjust_resource_capacity(net, initial_marking, resources, capacity) ==
    AdjustCapacities(resources, [net |-> net, im |-> initial_marking, repairs |-> <<>>], capacity)

(***************************************************************************)
(* copy.deepcopy of pm4py objects.  PetriNet.__deepcopy__ builds a new     *)
(* object for every place and transition and re-creates the arcs between   *)
(* the copies.  Marking.__deepcopy__ looks each key up in the memo of the  *)
(* running deepcopy call and, when the place is not in it, builds a new    *)
(* Place with the same name: a marking copied by a call of its own gets    *)
(* keys that are objects of no net.                                        *)
(***************************************************************************)
CopyOf(x, S, next) == [x EXCEPT !.oid = next + Rank(x, S)]

deepcopy_net(net, next) ==
    LET S == Nodes(net)
        cp(x) == CopyOf(x, S, next)
        pairs == BagToSet(net.arcs)
    IN  [net |-> [places |-> {cp(p) : p \in net.places},
                  transitions |-> {cp(t) : t \in net.transitions},
                  arcs |-> [a \in {<<cp(b[1]), cp(b[2])>> : b \in pairs} |->
                               net.arcs[CHOOSE b \in pairs : <<cp(b[1]), cp(b[2])>> = a]],
                  layout |-> net.layout],
         next |-> next + Cardinality(S)]

deepcopy_marking(marking, next) ==
    LET S == DOMAIN marking
        cp(x) == CopyOf(x, S, next)
    IN  [marking |-> [np \in {cp(p) : p \in S} |-> marking[CHOOSE p \in S : cp(p) = np]],
         next |-> next + Cardinality(S)]

(***************************************************************************)
(* The heap: h = [next, nets, marks]; a net or marking object is its index *)
(* in h.nets or h.marks                                                    *)
(***************************************************************************)
EmptyHeap == [next |-> 1, nets |-> <<>>, marks |-> <<>>]

\* faulty variant: the operators work on the objects passed in
CopyArguments_NoCopy(h, net, initial_marking, final_marking) ==
    [heap |-> h, net |-> net, im |-> initial_marking, fm |-> final_marking]

\* repair.py lines 386-388: three separate deepcopy calls
CopyArguments(h, net, initial_marking, final_marking) ==
    LET n == deepcopy_net(h.nets[net], h.next)
        im == deepcopy_marking(h.marks[initial_marking], n.next)
        fm == deepcopy_marking(h.marks[final_marking], im.next)
    IN  [heap |-> [next |-> fm.next,
                   nets |-> Append(h.nets, n.net),
                   marks |-> h.marks \o <<im.marking, fm.marking>>],
         net |-> Len(h.nets) + 1,
         im |-> Len(h.marks) + 1,
         fm |-> Len(h.marks) + 2]

\* repair.py lines 390-417: the operators in order, on the values of the
\* net and the initial marking; the possible [net, im, next, report, stages],
\* stages being the values the net object took after each operator
ApplyOperators(net, im, next, messages, resources, sync_tasks, remove_resources, resource_capacity) ==
    LET Resource(m) ==
            IF remove_resources
            THEN LET r == remove_resource_constraints(m.net, im)
                 IN  {[net |-> r.net, im |-> r.im, next |-> m.next,
                       res_repairs |-> r.repairs, cap_repairs |-> <<>>]}
            ELSE UNION {
                   IF resource_capacity > 1
                   THEN {[net |-> c.net, im |-> c.im, next |-> r.next,
                          res_repairs |-> r.repairs, cap_repairs |-> c.repairs]
                         : c \in adjust_resource_capacity(r.net, r.im, resources, resource_capacity)}
                   ELSE {[net |-> r.net, im |-> r.im, next |-> r.next,
                          res_repairs |-> r.repairs, cap_repairs |-> <<>>]}
                   : r \in repair_resource_arcs(m.net, resources, im, resource_capacity, m.next)}
        Report(m, r, s) ==
            LET all_repairs == m.repairs \o r.res_repairs \o r.cap_repairs \o s.repairs
            IN  [total_repairs |-> Len(all_repairs),
                 message_repairs |-> Len(m.repairs),
                 resource_repairs |-> Len(r.res_repairs),
                 sync_repairs |-> Len(s.repairs),
                 repair_actions |-> all_repairs,
                 remove_resources |-> remove_resources,
                 resource_capacity |-> resource_capacity]
    IN  UNION {UNION {{[net |-> s.net, im |-> r.im, next |-> r.next, report |-> Report(m, r, s),
                        stages |-> <<m.net, r.net, s.net>>]
                       : s \in repair_sync_tasks(r.net, sync_tasks)}
                      : r \in Resource(m)}
               : m \in repair_message_arcs(net, messages, next)}

\* the possible [heap, net, im, fm, report, stages] of apply_ce_pnr: the heap
\* afterwards and the objects returned
apply_ce_pnr(h, net, initial_marking, final_marking, messages, resources, sync_tasks, remove_resources, resource_capacity) ==
    LET c == CopyArguments(h, net, initial_marking, final_marking)
    IN  {[heap |-> [c.heap EXCEPT !.nets[c.net] = o.net, !.marks[c.im] = o.im, !.next = o.next],
          net |-> c.net, im |-> c.im, fm |-> c.fm, report |-> o.report, stages |-> o.stages]
         : o \in ApplyOperators(c.heap.nets[c.net], c.heap.marks[c.im], c.heap.next,
                                messages, resources, sync_tasks,
                                remove_resources, resource_capacity)}

(***************************************************************************)
(* evaluation.py.  Token replay and ETC precision are pm4py's.  An answer  *)
(* of pm4py to one evaluation is [replay, precision]: the replay raised or *)
(* gave the token totals over the traces, the precision raised or gave a   *)
(* value.  Floats are kept as exact fractions.                             *)
(***************************************************************************)
Replay(consumed, produced, missing, remaining) ==
    [raised |-> FALSE, consumed |-> consumed, produced |-> produced,
     missing |-> missing, remaining |-> remaining]
ReplayRaised ==
    [raised |-> TRUE, consumed |-> 0, produced |-> 0, missing |-> 0, remaining |-> 0]
Precision(value) == [raised |-> FALSE, value |-> value]
PrecisionRaised == [raised |-> TRUE, value |-> Rat(0, 1)]

Max(a, b) == IF a >= b THEN a ELSE b

\* max(0.0, min(1.0, num/den)) for den > 0
Clamp01(num, den) ==
    IF num <= 0 THEN Rat(0, 1) ELSE IF num >= den THEN Rat(1, 1) ELSE Rat(num, den)

\* lines 43-47 and 57: 0.5 * (1 - m / C) + 0.5 * (1 - r / P) is
\* ((C - m) * P + (P - r) * C) / (2 * C * P)
TokenReplayFitness(replay) ==
    IF replay.consumed + replay.produced > 0
    THEN LET C == Max(replay.consumed, 1)
             P == Max(replay.produced, 1)
         IN  Clamp01((C - replay.missing) * P + (P - replay.remaining) * C, 2 * C * P)
    ELSE Rat(0, 1)

\* lines 20-59: [value, details]; details has the totals or the error
calculate_fitness_token_replay(replay) ==
    IF replay.raised
    THEN [value |-> Rat(0, 1), details |-> [error |-> TRUE]]
    ELSE [value |-> TokenReplayFitness(replay), details |-> [error |-> FALSE]]

\* lines 84-101
calculate_precision(precision) ==
    IF precision.raised
    THEN [value |-> Rat(0, 1), details |-> [error |-> TRUE]]
    ELSE [value |-> precision.value, details |-> [error |-> FALSE]]

\* faulty variant: the arithmetic mean
calculate_f_measure_Mean(fitness, precision) ==
    Rat(fitness[1] * precision[2] + precision[1] * fitness[2], 2 * fitness[2] * precision[2])

\* lines 104-110: fitness + precision is
\* (f1 * p2 + p1 * f2) / (f2 * p2), and 2 * f * p / (f + p) is
\* 2 * f1 * p1 / (f1 * p2 + p1 * f2)
calculate_f_measure(fitness, precision) ==
    IF fitness[1] * precision[2] + precision[1] * fitness[2] = 0 THEN Rat(0, 1)
    ELSE Rat(2 * fitness[1] * precision[1],
             fitness[1] * precision[2] + precision[1] * fitness[2])

\* lines 113-137, with use_alignment = False
evaluate_model(pm4py) ==
    LET fit == calculate_fitness_token_replay(pm4py.replay)
        prec == calculate_precision(pm4py.precision)
    IN  [fitness |-> fit.value,
         precision |-> prec.value,
         f_measure |-> calculate_f_measure(fit.value, prec.value),
         fitness_details |-> fit.details,
         precision_details |-> prec.details]

\* The answers of pm4py in a run of the pipeline: both computations raise;
\* fitness 0.7 (below fitness_threshold), 0.8, 0.9 (the values the policy
\* compares with) and 0.904 with precision 0.9, which gives two F-measures
\* less than 0.005 apart (0.9 and 0.9019...); fitness and precision 0.95,
\* which gives the F-measure target_f_measure.
PipelineAnswers ==
    {[replay |-> ReplayRaised, precision |-> PrecisionRaised],
     [replay |-> Replay(10, 10, 3, 3), precision |-> Precision(Rat(9, 10))],
     [replay |-> Replay(10, 10, 2, 2), precision |-> Precision(Rat(9, 10))],
     [replay |-> Replay(10, 10, 1, 1), precision |-> Precision(Rat(9, 10))],
     [replay |-> Replay(125, 125, 12, 12), precision |-> Precision(Rat(9, 10))],
     [replay |-> Replay(20, 20, 1, 1), precision |-> Precision(Rat(95, 100))]}

\* the metrics evaluate_model can return in a run of the pipeline
Evaluations == {evaluate_model(pm4py) : pm4py \in PipelineAnswers}

NoAnswer == [replay |-> ReplayRaised, precision |-> PrecisionRaised]
NoMetrics == <<>>

(***************************************************************************)
(* cmip_imr.py: run_cmip_imr                                               *)
(***************************************************************************)
\* defaults of run_cmip_imr
target_f_measure == Rat(95, 100)
fitness_threshold == Rat(8, 10)

NoModel == [net |-> 0, im |-> 0, fm |-> 0, metrics |-> None]
NoMetadata == [departments |-> <<>>, sync_tasks |-> <<>>, messages |-> <<>>,
               resources |-> <<>>, total_events |-> 0]
\* repair_report is Optional[Dict]: no element for None, else the one report
NoReport == <<>>
NewResult == [n0 |-> NoModel, n1 |-> NoModel, repair_report |-> NoReport, iterations |-> 0]

\* what a caller passes: app.py passes 0 for max_iterations when repair is
\* disabled and 1..10 otherwise
Params == [max_iterations : 0..MaxIter, remove_resources_if_low_fitness : BOOLEAN]

Init ==
    /\ pc = "step1"
    /\ log \in Logs
    /\ layout \in Layouts
    /\ answer = NoAnswer
    /\ evaluated = NoMetrics
    /\ params \in Params
    /\ metadata = NoMetadata
    /\ dept_nets = <<>>
    /\ heap = EmptyHeap
    /\ n0 = None
    /\ current = NoModel
    /\ best = NoModel
    /\ iteration = 0
    /\ result = NewResult
    /\ trace = <<>>

\* the objects the department nets take before the integrated net is built
RECURSIVE NodeCount(_)
NodeCount(nets) ==
    IF nets = <<>> THEN 0
    ELSE Cardinality(Nodes(Head(nets).net)) + NodeCount(Tail(nets))

\* [Step 1] lines 89-98 (discover_integrated_model, discovery.py 213-243)
Discover ==
    /\ pc = "step1"
    /\ \E md \in load_and_prepare_log(log) :
       \E variants \in [1..Len(md.departments) -> OracleVariants] :
         LET nets == discover_all_department_nets(log, md.departments, variants, 0)
         IN  \E m \in merge_petri_nets(nets, md.messages, md.resources, md.sync_tasks,
                                       NodeCount(nets) + 1, layout) :
               /\ metadata' = md
               /\ dept_nets' = nets
               /\ heap' = [next |-> m.next, nets |-> <<m.net>>, marks |-> <<m.im, m.fm>>]
               /\ result' = [result EXCEPT !.n0 = [net |-> 1, im |-> 1, fm |-> 2, metrics |-> None]]
               /\ n0' = [net |-> m.net, im |-> m.im, fm |-> m.fm]
    /\ pc' = "step2"
    /\ UNCHANGED <<layout, answer, evaluated, log, params, current, best, iteration, trace>>

\* [Step 2]-[Step 4] lines 107-142: N0 is evaluated and the loop variables set
EvaluateN0 ==
    /\ pc = "step2"
    /\ \E n0_metrics \in Evaluations :
         /\ result' = [result EXCEPT !.n0.metrics = n0_metrics]
         /\ current' = [result.n0 EXCEPT !.metrics = n0_metrics]
         /\ best' = [result.n0 EXCEPT !.metrics = n0_metrics]
    /\ iteration' = 0
    /\ pc' = "loop"
    /\ UNCHANGED <<layout, answer, evaluated, log, params, metadata, dept_nets, heap, n0, trace>>

\* lines 148-155: the policy of one iteration
RemoveResources(metrics) ==
    params.remove_resources_if_low_fitness /\ RatLt(metrics.fitness, fitness_threshold)

\* faulty variant: the policy looks at the best net
ResourceCapacity_OfBest(metrics) ==
    IF ~RemoveResources(best.metrics) /\ RatLt(best.metrics.fitness, Rat(9, 10)) THEN 2 ELSE 1

ResourceCapacity(metrics) ==
    IF ~RemoveResources(metrics) /\ RatLt(metrics.fitness, Rat(9, 10)) THEN 2 ELSE 1

\* faulty variant: the latest repaired net always becomes the best
BestAfter_Latest(repaired) == repaired

\* faulty variant: on a tie the later net becomes the best
BestAfter_TieLatest(repaired) ==
    IF RatLe(best.metrics.f_measure, repaired.metrics.f_measure) THEN repaired ELSE best

\* lines 176-182
BestAfter(repaired) ==
    IF RatLt(best.metrics.f_measure, repaired.metrics.f_measure) THEN repaired ELSE best

\* faulty variant: the report of every iteration is recorded
ReportAfter_Latest(repaired, repair_report) == <<repair_report>>

\* line 182: the report is recorded in the branch that updates the best
ReportAfter(repaired, repair_report) ==
    IF BestAfter(repaired) = best THEN result.repair_report ELSE <<repair_report>>

\* faulty variant: an F-measure that did not move at all does not end the loop
Stops_OnlyWhenMoved(repaired_metrics) ==
    \/ RatLe(target_f_measure, repaired_metrics.f_measure)
    \/ /\ repaired_metrics.f_measure # current.metrics.f_measure
       /\ RatLt(RatAbsDiff(repaired_metrics.f_measure, current.metrics.f_measure), Rat(5, 1000))

\* faulty variant: only the target ends the loop early
Stops_TargetOnly(repaired_metrics) ==
    RatLe(target_f_measure, repaired_metrics.f_measure)

\* lines 184-190: the two break tests
Stops(repaired_metrics) ==
    \/ RatLe(target_f_measure, repaired_metrics.f_measure)
    \/ RatLt(RatAbsDiff(repaired_metrics.f_measure, current.metrics.f_measure), Rat(5, 1000))

\* faulty variant: one pass too many
LoopCondition_OffByOne == iteration <= params.max_iterations

\* line 144
LoopCondition == iteration < params.max_iterations

\* lines 144-195: one pass through the while loop
Iterate ==
    /\ pc = "loop"
    /\ LoopCondition
    /\ iteration' = iteration + 1
    /\ LET remove_resources == RemoveResources(current.metrics)
           resource_capacity == ResourceCapacity(current.metrics)
       IN  \E r \in apply_ce_pnr(heap, current.net, current.im, current.fm,
                                 metadata.messages, metadata.resources, metadata.sync_tasks,
                                 remove_resources, resource_capacity) :
           \E repaired_metrics \in Evaluations :
             LET repaired == [net |-> r.net, im |-> r.im, fm |-> r.fm,
                              metrics |-> repaired_metrics]
             IN  /\ heap' = r.heap
                 /\ best' = BestAfter(repaired)
                 /\ result' = [result EXCEPT !.repair_report = ReportAfter(repaired, r.report)]
                 /\ trace' = Append(trace,
                        [from |-> current, repaired |-> repaired, report |-> r.report,
                         given |-> [net |-> heap.nets[current.net],
                                    im |-> heap.marks[current.im],
                                    fm |-> heap.marks[current.fm]],
                         stages |-> r.stages])
                 /\ IF Stops(repaired_metrics)
                    THEN pc' = "exit" /\ current' = current
                    ELSE pc' = "loop" /\ current' = repaired
    /\ UNCHANGED <<layout, answer, evaluated, log, params, metadata, dept_nets, n0>>

\* lines 197-216: after the loop (left by break or by its condition)
Return ==
    /\ \/ pc = "exit"
       \/ pc = "loop" /\ ~LoopCondition
    /\ result' = [result EXCEPT !.n1 = best, !.iterations = iteration]
    /\ pc' = "done"
    /\ UNCHANGED <<layout, answer, evaluated, log, params, metadata, dept_nets, heap, n0, current, best, iteration, trace>>

Next == Discover \/ EvaluateN0 \/ Iterate \/ Return

Spec == Init /\ [][Next]_vars

(***************************************************************************)
(* The repair operators one by one (specification SpecOps).                *)
(* services/repair.py exports each operator; here they are called in any   *)
(* order on the one net object that merge_petri_nets built.  The caller of *)
(* merge_petri_nets passes the metadata of the log or leaves a list empty, *)
(* which gives the operators nets that lack message places, resource       *)
(* places or merged sync transitions.  trace keeps, per call, the net and  *)
(* the marking before and after.                                           *)
(***************************************************************************)
InitOps ==
    /\ pc = "ops_merge"
    /\ log \in Logs
    /\ layout \in Layouts
    /\ answer = NoAnswer
    /\ evaluated = NoMetrics
    /\ params = [max_iterations |-> 0, remove_resources_if_low_fitness |-> FALSE]
    /\ metadata = NoMetadata
    /\ dept_nets = <<>>
    /\ heap = EmptyHeap
    /\ n0 = None
    /\ current = NoModel
    /\ best = NoModel
    /\ iteration = 0
    /\ result = NewResult
    /\ trace = <<>>

\* discovery.py lines 131-210 on the department nets of the log
OpsMerge ==
    /\ pc = "ops_merge"
    /\ \E md \in load_and_prepare_log(log) :
       \E variants \in [1..Len(md.departments) -> OracleVariants] :
       \E messages \in {md.messages, <<>>}, resources \in {md.resources, <<>>},
          sync_tasks \in {md.sync_tasks, <<>>} :
         LET nets == discover_all_department_nets(log, md.departments, variants, 0)
         IN  \E m \in merge_petri_nets(nets, messages, resources, sync_tasks,
                                       NodeCount(nets) + 1, layout) :
               /\ metadata' = md
               /\ dept_nets' = nets
               /\ heap' = [next |-> m.next, nets |-> <<m.net>>, marks |-> <<m.im, m.fm>>]
               /\ n0' = [net |-> m.net, im |-> m.im, fm |-> m.fm]
    /\ pc' = "ops"
    /\ UNCHANGED <<layout, answer, evaluated, log, params, current, best, iteration, result, trace>>

OpsEnabled == pc = "ops" /\ Len(trace) < MaxOps

\* what one call leaves behind: the net object and the marking object hold
\* the operator's result
OpsCall(op, capacity, net, im, next, repairs) ==
    /\ heap' = [next |-> next, nets |-> <<net>>, marks |-> <<im, heap.marks[2]>>]
    /\ trace' = Append(trace, [op |-> op, capacity |-> capacity,
                               before |-> [net |-> heap.nets[1], im |-> heap.marks[1]],
                               after |-> [net |-> net, im |-> im],
                               repairs |-> repairs])
    /\ UNCHANGED <<layout, answer, evaluated, pc, log, params, metadata, dept_nets, n0, current, best, iteration, result>>

\* repair.py lines 178-232
OpRepairMessageArcs ==
    /\ OpsEnabled
    /\ \E r \in repair_message_arcs(heap.nets[1], metadata.messages, heap.next) :
         OpsCall("repair_message_arcs", 0, r.net, heap.marks[1], r.next, r.repairs)

\* repair.py lines 235-291
OpRepairResourceArcs ==
    /\ OpsEnabled
    /\ \E capacity \in 1..2 :
       \E r \in repair_resource_arcs(heap.nets[1], metadata.resources, heap.marks[1],
                                     capacity, heap.next) :
         OpsCall("repair_resource_arcs", capacity, r.net, r.im, r.next, r.repairs)

\* repair.py lines 294-321
OpRepairSyncTasks ==
    /\ OpsEnabled
    /\ \E r \in repair_sync_tasks(heap.nets[1], metadata.sync_tasks) :
         OpsCall("repair_sync_tasks", 0, r.net, heap.marks[1], heap.next, r.repairs)

\* repair.py lines 324-346
OpRemoveResourceConstraints ==
    /\ OpsEnabled
    /\ LET r == remove_resource_constraints(heap.nets[1], heap.marks[1])
       IN  OpsCall("remove_resource_constraints", 0, r.net, r.im, heap.next, r.repairs)

\* repair.py lines 349-367
OpAdjustResourceCapacity ==
    /\ OpsEnabled
    /\ \E capacity \in 1..2 :
       \E r \in adjust_resource_capacity(heap.nets[1], heap.marks[1], metadata.resources,
                                         capacity) :
         OpsCall("adjust_resource_capacity", capacity, r.net, r.im, heap.next, r.repairs)

NextOps ==
    \/ OpsMerge
    \/ OpRepairMessageArcs
    \/ OpRepairResourceArcs
    \/ OpRepairSyncTasks
    \/ OpRemoveResourceConstraints
    \/ OpAdjustResourceCapacity

SpecOps == InitOps /\ [][NextOps]_vars

(***************************************************************************)
(* apply_ce_pnr on its own (specification SpecRepair): repair.py exports   *)
(* it; here it is called with the metadata of the log on the net that      *)
(* merge_petri_nets built from all or part of the metadata (OpsMerge), and *)
(* then on the net it returned.  trace keeps, per call, the values passed  *)
(* in, the objects returned and the report.                                *)
(***************************************************************************)
\* the net and markings the next call gets
CallArguments ==
    IF trace = <<>> THEN [net |-> 1, im |-> 1, fm |-> 2]
    ELSE trace[Len(trace)].repaired

\* repair.py lines 370-419
ApplyCePnr ==
    /\ pc = "ops"
    /\ Len(trace) < MaxCalls
    /\ \E remove_resources \in BOOLEAN, resource_capacity \in 1..2 :
       \E r \in apply_ce_pnr(heap, CallArguments.net, CallArguments.im, CallArguments.fm,
                             metadata.messages, metadata.resources, metadata.sync_tasks,
                             remove_resources, resource_capacity) :
         /\ heap' = r.heap
         /\ trace' = Append(trace,
                [given |-> [net |-> heap.nets[CallArguments.net],
                            im |-> heap.marks[CallArguments.im],
                            fm |-> heap.marks[CallArguments.fm]],
                 repaired |-> [net |-> r.net, im |-> r.im, fm |-> r.fm],
                 report |-> r.report,
                 stages |-> r.stages])
    /\ UNCHANGED <<layout, answer, evaluated, pc, log, params, metadata, dept_nets, n0, current,
                   best, iteration, result>>

NextRepair == OpsMerge \/ ApplyCePnr

SpecRepair == InitOps /\ [][NextRepair]_vars

(***************************************************************************)
(* Integration and repair of logs whose names are free (specification      *)
(* SpecNames): roles, message ids and resource ids are strings of the CSV  *)
(* file, and a department may be called RES or MSG and an id like a local  *)
(* place.  The steps are those of SpecRepair.                              *)
(***************************************************************************)
NameLogs ==
    {<<Ev("A", <<dept>>, send_msg, <<>>, req_res, <<>>)>> :
        dept \in {"MSG", "RES", "X"},
        send_msg \in {<<>>, <<"source">>},
        req_res \in {<<>>, <<"source">>}}

InitNames ==
    /\ pc = "ops_merge"
    /\ log \in NameLogs
    /\ layout \in Layouts
    /\ answer = NoAnswer
    /\ evaluated = NoMetrics
    /\ params = [max_iterations |-> 0, remove_resources_if_low_fitness |-> FALSE]
    /\ metadata = NoMetadata
    /\ dept_nets = <<>>
    /\ heap = EmptyHeap
    /\ n0 = None
    /\ current = NoModel
    /\ best = NoModel
    /\ iteration = 0
    /\ result = NewResult
    /\ trace = <<>>

SpecNames == InitNames /\ [][NextRepair]_vars

(***************************************************************************)
(* evaluate_model on its own (specification SpecEval): pm4py's answer is   *)
(* any replay outcome with totals up to MaxTokens and any precision        *)
(* outcome; the one step computes the metrics dictionary.                  *)
(***************************************************************************)
PrecisionValues == {Rat(0, 1), Rat(1, 2), Rat(9, 10), Rat(1, 1)}

Answers ==
    [replay : {ReplayRaised} \cup {Replay(c, p, m, r) : c \in 0..MaxTokens, p \in 0..MaxTokens,
                                                     m \in 0..MaxTokens, r \in 0..MaxTokens},
     precision : {PrecisionRaised} \cup {Precision(v) : v \in PrecisionValues}]

InitEval ==
    /\ pc = "evaluate"
    /\ answer \in Answers
    /\ evaluated = NoMetrics
    /\ log = LogE1
    /\ layout = 1
    /\ params = [max_iterations |-> 0, remove_resources_if_low_fitness |-> FALSE]
    /\ metadata = NoMetadata
    /\ dept_nets = <<>>
    /\ heap = EmptyHeap
    /\ n0 = None
    /\ current = NoModel
    /\ best = NoModel
    /\ iteration = 0
    /\ result = NewResult
    /\ trace = <<>>

\* evaluation.py lines 113-137
EvaluateModel ==
    /\ pc = "evaluate"
    /\ evaluated' = <<evaluate_model(answer)>>
    /\ pc' = "evaluated"
    /\ UNCHANGED <<layout, answer, log, params, metadata, dept_nets, heap, n0, current, best,
                   iteration, result, trace>>

NextEval == EvaluateModel

SpecEval == InitEval /\ [][NextEval]_vars

(***************************************************************************)
(* load_and_prepare_log on its own (specification SpecIngest): the frame   *)
(* is any log of up to MaxEvents events of one case, whose events list     *)
(* message ids on either side; the one step builds the metadata.           *)
(***************************************************************************)
IngestCells == {<<>>, <<"m1">>, <<"m2">>, <<"m1", "m2">>}

IngestEvents ==
    {Ev(tran, <<"X">>, send_msg, rec_msg, <<>>, <<>>) :
        tran \in {"A", "B"}, send_msg \in IngestCells \ {<<"m2">>}, rec_msg \in IngestCells \ {<<"m1", "m2">>}}

IngestLogs == UNION {[1..n -> IngestEvents] : n \in 0..MaxEvents}

InitIngest ==
    /\ pc = "load"
    /\ log \in IngestLogs
    /\ metadata = NoMetadata
    /\ layout = 1
    /\ answer = NoAnswer
    /\ evaluated = NoMetrics
    /\ params = [max_iterations |-> 0, remove_resources_if_low_fitness |-> FALSE]
    /\ dept_nets = <<>>
    /\ heap = EmptyHeap
    /\ n0 = None
    /\ current = NoModel
    /\ best = NoModel
    /\ iteration = 0
    /\ result = NewResult
    /\ trace = <<>>

\* ingest.py lines 158-179
LoadAndPrepareLog ==
    /\ pc = "load"
    /\ metadata' \in load_and_prepare_log(log)
    /\ pc' = "loaded"
    /\ UNCHANGED <<layout, answer, evaluated, log, params, dept_nets, heap, n0, current, best,
                   iteration, result, trace>>

NextIngest == LoadAndPrepareLog

SpecIngest == InitIngest /\ [][NextIngest]_vars

(***************************************************************************)
(* Properties of run_cmip_imr (specification Spec)                         *)
(***************************************************************************)
Built == pc # "step1"

N0Net == heap.nets[result.n0.net]
N0Im == heap.marks[result.n0.im]
N0Fm == heap.marks[result.n0.fm]

Iterations == 1..Len(trace)

\* N0 and the nets returned by the iterations, with their markings
Models == (IF Built THEN {result.n0} ELSE {}) \cup {trace[i].repaired : i \in Iterations}

\* every value a net object held after integration or after a repair operator
ProducedNets ==
    {heap.nets[i] : i \in 1..Len(heap.nets)}
    \cup UNION {SeqToSet(trace[i].stages) : i \in Iterations}

\* C1: N0 (places, transitions, arcs, initial and final marking) is, at every
\* point of the run and for every number of iterations, what it was when
\* integration finished, and each call of apply_ce_pnr leaves the net and the
\* markings it was given as they were.
C1_N0Preserved ==
    /\ Built => N0Net = n0.net /\ N0Im = n0.im /\ N0Fm = n0.fm
    /\ \A i \in Iterations :
         /\ heap.nets[trace[i].from.net] = trace[i].given.net
         /\ heap.marks[trace[i].from.im] = trace[i].given.im
         /\ heap.marks[trace[i].from.fm] = trace[i].given.fm

\* two iterations ran and each of them edited its copy
C1_Witness ==
    /\ pc = "done"
    /\ Len(trace) >= 2
    /\ \A i \in Iterations : trace[i].report.total_repairs > 0

\* C2: the returned n1.metrics.f_measure is at least n0.metrics.f_measure,
\* whatever F-measures the repaired nets obtained.
C2_BestNotBelowN0 ==
    pc = "done" => RatLe(result.n0.metrics.f_measure, result.n1.metrics.f_measure)

\* a run in which an iteration scored below N0
C2_Witness ==
    /\ pc = "done"
    /\ \E i \in Iterations :
         RatLt(trace[i].repaired.metrics.f_measure, result.n0.metrics.f_measure)

\* C3: the returned iterations count is at most max_iterations, for
\* max_iterations = 0 (repair disabled) as for larger values.
C3_IterationBound ==
    pc = "done" => result.iterations <= params.max_iterations

\* the loop ran until its condition failed
C3_Witness ==
    /\ pc = "done"
    /\ params.max_iterations >= 1
    /\ result.iterations = params.max_iterations

\* C4: in N0 and in every net returned by an iteration, every key of the
\* initial and of the final marking is a place object of that net.
C4_MarkingPlacesInNet ==
    \A m \in Models :
        /\ DOMAIN heap.marks[m.im] \subseteq heap.nets[m.net].places
        /\ DOMAIN heap.marks[m.fm] \subseteq heap.nets[m.net].places

\* C5: after an iteration that does not remove resources, every RES: place of
\* the returned net holds, in the returned initial marking, the capacity the
\* iteration's policy selected.
C5_ResourceTokensEqualCapacity ==
    \A i \in Iterations :
        ~trace[i].report.remove_resources =>
            \A p \in heap.nets[trace[i].repaired.net].places :
                StartsWithRes(p.name) =>
                    Tokens(heap.marks[trace[i].repaired.im], p) = trace[i].report.resource_capacity

\* C6: N0 and every net produced by the repair loop have at most one
\* transition labelled s, for every sync activity s.
C6_UniqueSync ==
    \A net \in ProducedNets : \A s \in SeqToSet(metadata.sync_tasks) :
        Cardinality({t \in net.transitions : t.label = s}) <= 1

\* a sync activity that two department nets carry, one of them twice, after
\* an iteration of the loop
C6_Witness ==
    /\ Len(trace) >= 1
    /\ \E s \in SeqToSet(metadata.sync_tasks) :
         /\ Cardinality({i \in 1..Len(dept_nets) :
                           \E t \in dept_nets[i].net.transitions : t.label = s}) >= 2
         /\ \E i \in 1..Len(dept_nets) :
              Cardinality({t \in dept_nets[i].net.transitions : t.label = s}) >= 2
         /\ Cardinality({t \in N0Net.transitions : t.label = s}) = 1

\* C7: after integration, for each message with a sender and a receiver, N0
\* has the place MSG:<id>, exactly one arc into it from each transition
\* labelled with the sender and exactly one arc out of it to each transition
\* labelled with the receiver.
C7_MessageArcCount ==
    Built =>
        \A k \in 1..Len(metadata.messages) :
            LET msg == metadata.messages[k]
            IN  (msg.send_task # None /\ msg.recv_task # None) =>
                    \E p \in N0Net.places :
                        /\ p.name = MsgPlaceName(msg.id)
                        /\ \A t \in N0Net.transitions :
                             /\ t.label = msg.send_task => CopiesIn(<<t, p>>, N0Net.arcs) = 1
                             /\ t.label = msg.recv_task => CopiesIn(<<p, t>>, N0Net.arcs) = 1

\* a message whose sender activity labels two transitions of N0
C7_Witness ==
    /\ pc = "step2"
    /\ \E k \in 1..Len(metadata.messages) :
         LET msg == metadata.messages[k]
         IN  /\ msg.send_task # None /\ msg.recv_task # None
             /\ Cardinality({t \in N0Net.transitions : t.label = msg.send_task}) >= 2
             /\ \E t \in N0Net.transitions : t.label = msg.recv_task

\* C8: after integration, for each resource of the metadata, N0 has the place
\* RES:<id> with one initial token, exactly one arc from it to every
\* transition labelled with a requesting activity and exactly one arc to it
\* from every transition labelled with a releasing activity.
C8_ResourcePlaces ==
    Built =>
        \A k \in 1..Len(metadata.resources) :
            LET res == metadata.resources[k]
            IN  \E p \in N0Net.places :
                    /\ p.name = ResPlaceName(res.id)
                    /\ Tokens(N0Im, p) = 1
                    /\ \A t \in N0Net.transitions :
                         /\ InSeq(t.label, res.req_tasks) => CopiesIn(<<p, t>>, N0Net.arcs) = 1
                         /\ InSeq(t.label, res.rel_tasks) => CopiesIn(<<t, p>>, N0Net.arcs) = 1

\* a resource requested by an activity that labels two transitions of N0 and
\* released by another activity
C8_Witness ==
    /\ pc = "step2"
    /\ \E k \in 1..Len(metadata.resources) :
         LET res == metadata.resources[k]
         IN  /\ Cardinality({t \in N0Net.transitions : InSeq(t.label, res.req_tasks)}) >= 2
             /\ \E t \in N0Net.transitions :
                  InSeq(t.label, res.rel_tasks) /\ ~InSeq(t.label, res.req_tasks)

(***************************************************************************)
(* Properties of the operators (specification SpecOps)                     *)
(***************************************************************************)
OpsCalls == 1..Len(trace)

\* the integrated net and the net after every operator call
OpsNets ==
    {heap.nets[i] : i \in 1..Len(heap.nets)} \cup {trace[i].after.net : i \in OpsCalls}

\* C9: the integrated net and every net an operator returns have at most one
\* arc for each ordered pair (source, target).
C9_NoParallelArcs ==
    \A net \in OpsNets : \A arc \in BagToSet(net.arcs) : CopiesIn(arc, net.arcs) <= 1

\* C10: in the integrated net and in every net an operator returns, every arc
\* joins a place of that net and a transition of that net.
C10_ArcsJoinPlaceAndTransition ==
    \A net \in OpsNets : \A arc \in BagToSet(net.arcs) :
        \/ arc[1] \in net.places /\ arc[2] \in net.transitions
        \/ arc[1] \in net.transitions /\ arc[2] \in net.places

\* repair_sync_tasks merged transitions that had arcs and
\* remove_resource_constraints removed a place that had arcs
C10_Witness ==
    /\ \E i \in OpsCalls :
         /\ trace[i].op = "repair_sync_tasks"
         /\ \E t \in trace[i].before.net.transitions :
              /\ t \notin trace[i].after.net.transitions
              /\ \E arc \in BagToSet(trace[i].before.net.arcs) : t \in {arc[1], arc[2]}
    /\ \E i \in OpsCalls :
         /\ trace[i].op = "remove_resource_constraints"
         /\ \E p \in trace[i].before.net.places :
              /\ p \notin trace[i].after.net.places
              /\ \E arc \in BagToSet(trace[i].before.net.arcs) : arc[1] = p
              /\ \E arc \in BagToSet(trace[i].before.net.arcs) : arc[2] = p

\* C11: a repair operator called twice in succession with the same arguments
\* leaves the places, transitions, arcs and initial marking, after the second
\* call, as the first call left them.
C11_Idempotent ==
    \A i \in OpsCalls : \A j \in OpsCalls :
        (j = i + 1 /\ trace[i].op = trace[j].op /\ trace[i].capacity = trace[j].capacity)
            => trace[j].after = trace[i].after

\* an operator that changed the net or the marking in its first call was
\* called again
C11_Witness ==
    \E op \in {"repair_message_arcs", "repair_resource_arcs", "adjust_resource_capacity",
               "remove_resource_constraints", "repair_sync_tasks"} :
        /\ Len(trace) >= 2
        /\ trace[1].op = op /\ trace[2].op = op
        /\ trace[1].capacity = trace[2].capacity
        /\ trace[1].after # trace[1].before

\* the places with an arc to / from transition t of net
PrePlaces(net, t) == {arc[1] : arc \in {a \in BagToSet(net.arcs) : a[2] = t}}
PostPlaces(net, t) == {arc[2] : arc \in {a \in BagToSet(net.arcs) : a[1] = t}}

\* the transitions of net that carry label s
Carrying(net, s) == {t \in net.transitions : t.label = s}

\* the sync activities that more than one transition of net carries
Duplicated(net) == {s \in SeqToSet(metadata.sync_tasks) : Cardinality(Carrying(net, s)) > 1}

\* C27: after repair_sync_tasks, of the k > 1 transitions that carried a sync
\* activity s exactly one remains, its input places are the union of the input
\* places of the k transitions and its output places the union of their output
\* places, the other k - 1 transitions are not in the net and no arc refers to
\* them; the transitions with other labels and their arcs are unchanged.
C27_SyncTransitionsMerged ==
    \A i \in OpsCalls :
        trace[i].op = "repair_sync_tasks" =>
            LET before == trace[i].before.net
                after == trace[i].after.net
                merged == UNION {Carrying(before, s) : s \in Duplicated(before)}
            IN  /\ \A s \in Duplicated(before) :
                     /\ Cardinality(Carrying(after, s)) = 1
                     /\ \A t \in Carrying(after, s) :
                          /\ t \in Carrying(before, s)
                          /\ PrePlaces(after, t)
                                = UNION {PrePlaces(before, u) : u \in Carrying(before, s)}
                          /\ PostPlaces(after, t)
                                = UNION {PostPlaces(before, u) : u \in Carrying(before, s)}
                /\ \A arc \in BagToSet(after.arcs) :
                     arc[1] \in Nodes(after) /\ arc[2] \in Nodes(after)
                /\ after.places = before.places
                /\ after.transitions \ merged = before.transitions \ merged
                /\ \A t \in before.transitions \ merged :
                     \A p \in before.places :
                        /\ CopiesIn(<<p, t>>, after.arcs) = CopiesIn(<<p, t>>, before.arcs)
                        /\ CopiesIn(<<t, p>>, after.arcs) = CopiesIn(<<t, p>>, before.arcs)

\* two transitions of two departments carried S, and the one that is left has
\* input places of both
C27_Witness ==
    \E i \in OpsCalls :
        /\ trace[i].op = "repair_sync_tasks"
        /\ Cardinality(Carrying(trace[i].before.net, "S")) = 2
        /\ \E t \in Carrying(trace[i].after.net, "S") :
              \E p, q \in PrePlaces(trace[i].after.net, t) : p.name[1] = "X" /\ q.name[1] = "Y"

(***************************************************************************)
(* Properties of the repair loop (specification Spec)                      *)
(***************************************************************************)
\* the metrics of the net iteration i starts from: N0 in iteration 1, else
\* the net repaired in iteration i - 1
CurrentMetrics(i) == IF i = 1 THEN result.n0.metrics ELSE trace[i - 1].repaired.metrics

\* C12: in every iteration the policy follows from the fitness f of the
\* current net: remove_resources = TRUE and capacity 1 when f < fitness_threshold
\* and removal is allowed; else capacity 2 when f < 0.9; else capacity 1.
C12_PolicyOfCurrentFitness ==
    \A i \in Iterations :
        LET f == CurrentMetrics(i).fitness
            removal == params.remove_resources_if_low_fitness /\ RatLt(f, Rat(8, 10))
            low == RatLt(f, Rat(9, 10))
        IN  /\ trace[i].from.metrics = CurrentMetrics(i)
            /\ trace[i].report.remove_resources = removal
            /\ trace[i].report.resource_capacity = (IF removal THEN 1 ELSE IF low THEN 2 ELSE 1)

\* a second iteration whose current net is not the best net and asks for
\* another capacity than the best net would
C12_Witness ==
    /\ Len(trace) >= 2
    /\ best # trace[1].repaired
    /\ trace[2].report.resource_capacity = 2
    /\ ~RatLt(result.n0.metrics.fitness, Rat(9, 10))
    /\ ~trace[2].report.remove_resources

\* the stop rule at the end of iteration i, as the specification words it
StopRule(i) ==
    LET new == trace[i].repaired.metrics.f_measure
    IN  \/ RatLe(Rat(95, 100), new)
        \/ RatLt(RatAbsDiff(new, CurrentMetrics(i).f_measure), Rat(5, 1000))
        \/ i = params.max_iterations

\* C13: iteration i is the last one exactly when the stop rule holds at its
\* end; otherwise the loop goes on from the net repaired in iteration i.  The
\* best is updated before the stop test: the net of the last iteration is
\* returned when its F-measure is above N0's and above those of the earlier
\* iterations.
C13_StopRule ==
    /\ \A i \in Iterations :
         /\ StopRule(i) => i = Len(trace) /\ pc \in {"exit", "done", "loop"}
         /\ (StopRule(i) /\ pc = "loop") => ~ENABLED Iterate
         /\ (~StopRule(i) /\ i = Len(trace)) =>
                pc = "loop" /\ current = trace[i].repaired /\ iteration = i
                /\ iteration < params.max_iterations
         /\ (~StopRule(i) /\ i < Len(trace)) => trace[i + 1].from = trace[i].repaired
    /\ (pc = "done" /\ Len(trace) >= 1) =>
         LET last == trace[Len(trace)].repaired
         IN  /\ result.iterations = Len(trace)
             /\ ((/\ RatLt(result.n0.metrics.f_measure, last.metrics.f_measure)
                  /\ \A i \in Iterations : i < Len(trace) =>
                        RatLt(trace[i].repaired.metrics.f_measure, last.metrics.f_measure))
                 => result.n1 = last)

\* the run stopped before max_iterations because the F-measure moved by less
\* than 0.005 (0.9 to 0.9019...), below the target, and returned the net of
\* that last iteration
C13_Witness ==
    /\ pc = "done"
    /\ Len(trace) >= 1
    /\ Len(trace) < params.max_iterations
    /\ CurrentMetrics(Len(trace)).f_measure = Rat(9, 10)
    /\ trace[Len(trace)].repaired.metrics.fitness = Rat(904, 1000)
    /\ result.n1 = trace[Len(trace)].repaired

\* C14: on return, n1 (net, markings, metrics) is N0 as evaluated, with no
\* repair report, or the output of one iteration as evaluated, with the
\* report of that iteration; the report is absent exactly when n1 is N0.
C14_N1AndReportOfOneNet ==
    pc = "done" =>
        /\ \/ result.n1 = result.n0 /\ result.repair_report = NoReport
           \/ \E i \in Iterations :
                /\ result.n1 = trace[i].repaired
                /\ result.repair_report = <<trace[i].report>>
        /\ (result.repair_report = NoReport) <=> (result.n1 = result.n0)

\* the first of two iterations produced n1 and the second, which did not
\* improve on it, has another report
C14_Witness ==
    /\ pc = "done"
    /\ Len(trace) = 2
    /\ result.n1 = trace[1].repaired
    /\ trace[2].report # trace[1].report

\* a net and a marking without the identity of their objects: names, labels,
\* arcs between names with their number, tokens per place name
NetShape(net) ==
    [places |-> {p.name : p \in net.places},
     transitions |-> {<<t.name, t.label>> : t \in net.transitions},
     arcs |-> {<<arc[1].name, arc[2].name, CopiesIn(arc, net.arcs)>> : arc \in BagToSet(net.arcs)}]

MarkingShape(marking) == {<<p.name, marking[p]>> : p \in DOMAIN marking}

\* iteration i got back from apply_ce_pnr what it had passed
NothingChanged(i) ==
    /\ NetShape(heap.nets[trace[i].repaired.net]) = NetShape(trace[i].given.net)
    /\ MarkingShape(heap.marks[trace[i].repaired.im]) = MarkingShape(trace[i].given.im)
    /\ MarkingShape(heap.marks[trace[i].repaired.fm]) = MarkingShape(trace[i].given.fm)

RepairedUnder(i, md, lay) ==
    LET n == deepcopy_net([trace[i].given.net EXCEPT !.layout = lay], heap.next)
        im == deepcopy_marking(trace[i].given.im, n.next)
    IN  ApplyOperators(n.net, im.marking, im.next,
                       md.messages, md.resources, md.sync_tasks,
                       trace[i].report.remove_resources,
                       trace[i].report.resource_capacity)

\* C19: N0 and the net and initial marking every iteration returns are the
\* same, up to the identity of the objects, for every order in which the
\* message ids and resource ids are met in metadata extraction and every order
\* in which a loop meets the transitions of a net.  (With an evaluator that is
\* a function of the net, equal nets get equal metrics and policies, so that
\* N1 and the metrics of two runs are equal when these are.)
C19_TraversalOrderIndependent ==
    /\ Built =>
         \A md \in load_and_prepare_log(log) : \A lay \in Layouts :
             \A m \in merge_petri_nets(dept_nets, md.messages, md.resources, md.sync_tasks,
                                       heap.next, lay) :
                 /\ NetShape(m.net) = NetShape(N0Net)
                 /\ MarkingShape(m.im) = MarkingShape(N0Im)
                 /\ MarkingShape(m.fm) = MarkingShape(N0Fm)
    /\ \A i \in Iterations :
         \A md \in load_and_prepare_log(log) : \A lay \in Layouts :
             \A o \in RepairedUnder(i, md, lay) :
                 /\ NetShape(o.net) = NetShape(heap.nets[trace[i].repaired.net])
                 /\ MarkingShape(o.im) = MarkingShape(heap.marks[trace[i].repaired.im])

\* C20: run_cmip_imr never returns a Result for a log with zero events (the
\* run ends in an error instead).
C20_EmptyLogIsAnError == log = LogEmpty => pc # "done"

\* the net without its resource places and their arcs, by names
ShapeWithoutResources(net) ==
    [places |-> {p.name : p \in {q \in net.places : ~StartsWithRes(q.name)}},
     transitions |-> {<<t.name, t.label>> : t \in net.transitions},
     arcs |-> {<<arc[1].name, arc[2].name, CopiesIn(arc, net.arcs)>>
                 : arc \in {a \in BagToSet(net.arcs) :
                               ~StartsWithRes(a[1].name) /\ ~StartsWithRes(a[2].name)}}]

\* the net an iteration returned has no resource place and no arc at one
NoResourceInNet(net) ==
    /\ \A p \in net.places : ~StartsWithRes(p.name)
    /\ \A arc \in BagToSet(net.arcs) : ~StartsWithRes(arc[1].name) /\ ~StartsWithRes(arc[2].name)

\* remove_resource_constraints changed nothing but the resource places, their
\* arcs and their marking entries: the net before it (stage 1, after
\* repair_message_arcs) and the net after it (stage 2) agree elsewhere
ResourceRemovalFrame(i) ==
    /\ ShapeWithoutResources(trace[i].stages[2]) = ShapeWithoutResources(trace[i].stages[1])
    /\ {e \in MarkingShape(heap.marks[trace[i].repaired.im]) : ~StartsWithRes(e[1])}
          = {e \in MarkingShape(trace[i].given.im) : ~StartsWithRes(e[1])}

\* C24: after an iteration run with remove_resources = true the returned net
\* has no resource place and no arc touching one, the returned initial marking
\* has no entry for a place RES:<id>, and every other place, transition, arc
\* and marking entry is as remove_resource_constraints found it.
C24_ResourcesRemoved ==
    \A i \in Iterations :
        trace[i].report.remove_resources =>
            /\ NoResourceInNet(heap.nets[trace[i].repaired.net])
            /\ \A p \in DOMAIN heap.marks[trace[i].repaired.im] : ~StartsWithRes(p.name)
            /\ ResourceRemovalFrame(i)

\* the nets evaluated so far, in order: N0, then the net of each iteration
EvaluatedModel(j) == IF j = 0 THEN result.n0 ELSE trace[j].repaired

\* the largest F-measure among them
MaxF ==
    CHOOSE f \in {EvaluatedModel(j).metrics.f_measure : j \in 0..Len(trace)} :
        \A j \in 0..Len(trace) : RatLe(EvaluatedModel(j).metrics.f_measure, f)

\* C29: once N0 is evaluated, the best model held by run_cmip_imr is the
\* earliest of N0 and the repaired nets evaluated so far whose F-measure is the
\* maximum of their F-measures, and the n1 returned is that model.
C29_BestIsEarliestMaximum ==
    (pc \in {"loop", "exit", "done"}) =>
        /\ best.metrics.f_measure = MaxF
        /\ \E j \in 0..Len(trace) :
              /\ best = EvaluatedModel(j)
              /\ \A l \in 0..(j - 1) : EvaluatedModel(l).metrics.f_measure # MaxF
        /\ pc = "done" => result.n1 = best

\* iteration 1 scored above N0, iteration 2 below iteration 1, and the run
\* returned the net of iteration 1
C29_Witness ==
    /\ pc = "done"
    /\ Len(trace) = 2
    /\ RatLt(result.n0.metrics.f_measure, trace[1].repaired.metrics.f_measure)
    /\ RatLt(trace[2].repaired.metrics.f_measure, trace[1].repaired.metrics.f_measure)
    /\ result.n1 = trace[1].repaired

\* net has a place RES:<id> for every resource of the metadata
HasEveryResourcePlace(net) ==
    \A k \in 1..Len(metadata.resources) :
        \E p \in net.places : p.name = ResPlaceName(metadata.resources[k].id)

\* C30: every iteration run with remove_resources = false returns a net with a
\* place RES:<id> for every resource id of the metadata, also when the net it
\* was given had lost its resource places in an earlier iteration.
C30_ResourcePlacesRestored ==
    \A i \in Iterations :
        ~trace[i].report.remove_resources => HasEveryResourcePlace(heap.nets[trace[i].repaired.net])

\* iteration 1 removed the resource places, iteration 2 ran without removal on
\* the net without them and returned a net that has them again
C30_Witness ==
    /\ Len(trace) = 2
    /\ metadata.resources # <<>>
    /\ trace[1].report.remove_resources
    /\ ~trace[2].report.remove_resources
    /\ \A p \in trace[2].given.net.places : ~StartsWithRes(p.name)
    /\ HasEveryResourcePlace(heap.nets[trace[2].repaired.net])

(***************************************************************************)
(* Properties of evaluate_model (specification SpecEval)                   *)
(***************************************************************************)
Evaluated == pc = "evaluated"

\* C16: when token replay or the precision computation raises inside
\* evaluate_model, the metrics returned have fitness 0, precision 0 and
\* f_measure 0 and carry an error descriptor.
C16_ErrorGivesZeroMetrics ==
    (Evaluated /\ (answer.replay.raised \/ answer.precision.raised)) =>
        /\ evaluated[1].fitness = Rat(0, 1)
        /\ evaluated[1].precision = Rat(0, 1)
        /\ evaluated[1].f_measure = Rat(0, 1)
        /\ evaluated[1].fitness_details.error \/ evaluated[1].precision_details.error

\* C17: for all totals of consumed, produced, missing and remaining tokens,
\* consumed = produced = 0 included, the fitness returned is
\* 1/2 * (1 - missing / max(consumed, 1)) + 1/2 * (1 - remaining / max(produced, 1))
\* clamped to [0, 1].
C17_FitnessFormula ==
    (Evaluated /\ ~answer.replay.raised) =>
        LET C == IF answer.replay.consumed >= 1 THEN answer.replay.consumed ELSE 1
            P == IF answer.replay.produced >= 1 THEN answer.replay.produced ELSE 1
            num == (C - answer.replay.missing) * P + (P - answer.replay.remaining) * C
            den == 2 * C * P
            f == evaluated[1].fitness
        IN  IF num <= 0 THEN f[1] = 0
            ELSE IF num >= den THEN f[1] = f[2]
            ELSE f[1] * den = num * f[2]

IsDeptPlace(p) == p.name[1] \in SeqToSet(metadata.departments)

\* names of the department places with an arc to / from transition t of net
PreNames(net, t) ==
    {arc[1].name : arc \in {a \in BagToSet(net.arcs) : a[2] = t /\ IsDeptPlace(a[1])}}
PostNames(net, t) ==
    {arc[2].name : arc \in {a \in BagToSet(net.arcs) : a[1] = t /\ IsDeptPlace(a[2])}}

\* the s-labelled transitions of the department nets, with their department
DeptTransitions(s) ==
    UNION {{<<i, u>> : u \in {v \in dept_nets[i].net.transitions : v.label = s}}
           : i \in 1..Len(dept_nets)}

\* the namespaced names of a department transition's input / output places
DeptPreNames(i, u) ==
    {Namespaced(<<dept_nets[i].dept>>, arc[1].name)
        : arc \in {a \in BagToSet(dept_nets[i].net.arcs) : a[2] = u}}
DeptPostNames(i, u) ==
    {Namespaced(<<dept_nets[i].dept>>, arc[2].name)
        : arc \in {a \in BagToSet(dept_nets[i].net.arcs) : a[1] = u}}

RelabelledShape(i) ==
    LET d == dept_nets[i]
        nm(x) == Namespaced(<<d.dept>>, x.name)
    IN  [places |-> {nm(p) : p \in d.net.places},
         transitions |-> {<<nm(t), t.label>> : t \in d.net.transitions},
         arcs |-> {<<nm(arc[1]), nm(arc[2]), CopiesIn(arc, d.net.arcs)>>
                     : arc \in BagToSet(d.net.arcs)}]

RelabelledMarking(i, marking) ==
    {<<Namespaced(<<dept_nets[i].dept>>, p.name), marking[p]>> : p \in DOMAIN marking}

\* C25: for a log in which exactly one department occurs, sync_tasks, messages
\* and resources are empty, N0 has no SYNC:* transition and no MSG:* or RES:*
\* place, and N0's places, transitions, arcs and markings are the department
\* net's, each renamed "<dept>:<name>".
C25_SingleDepartmentRelabel ==
    (Built /\ Len(metadata.departments) = 1) =>
        /\ metadata.sync_tasks = <<>>
        /\ metadata.messages = <<>>
        /\ metadata.resources = <<>>
        /\ \A t \in N0Net.transitions : t.name[1] # "SYNC"
        /\ \A p \in N0Net.places : p.name[1] \notin {"MSG", "RES"}
        /\ NetShape(N0Net) = RelabelledShape(1)
        /\ MarkingShape(N0Im) = RelabelledMarking(1, dept_nets[1].im)
        /\ MarkingShape(N0Fm) = RelabelledMarking(1, dept_nets[1].fm)

\* C26: for every message of the metadata, the arcs at MSG:<id> in N0 are
\* exactly the arcs from the transitions labelled with its sender and the arcs
\* to the transitions labelled with its receiver; an absent sender (receiver)
\* gives no arc into (out of) the place, and no silent transition is connected
\* to a message place.
C26_MessageArcsOfN0 ==
    Built =>
        \A k \in 1..Len(metadata.messages) :
            LET msg == metadata.messages[k]
                senders == {t \in N0Net.transitions :
                               msg.send_task # None /\ t.label # None /\ t.label = msg.send_task}
                receivers == {t \in N0Net.transitions :
                                 msg.recv_task # None /\ t.label # None /\ t.label = msg.recv_task}
            IN  \A p \in {q \in N0Net.places : q.name = MsgPlaceName(msg.id)} :
                    {arc \in BagToSet(N0Net.arcs) : arc[1] = p \/ arc[2] = p}
                        = {<<t, p>> : t \in senders} \cup {<<p, t>> : t \in receivers}

(***************************************************************************)
(* Properties of load_and_prepare_log (specification SpecIngest)           *)
(***************************************************************************)
Loaded == pc = "loaded"

\* the events of the log that list id in the cell `field`
Listing(field, id) == {i \in 1..Len(log) : InSeq(id, log[i][field])}

\* side is the activity of the first event that lists id in `field`, and is
\* absent iff no event lists it
IsFirstSeen(side, field, id) ==
    IF Listing(field, id) = {} THEN side = None
    ELSE \E i \in Listing(field, id) :
            /\ side = log[i].tran
            /\ \A j \in 1..(i - 1) : j \notin Listing(field, id)

\* C21: metadata.messages maps every message id to (s, r), s the activity of
\* the first event that lists the id in send_msg and r that of the first event
\* that lists it in rec_msg, whatever later events list it; a side is absent
\* iff no event lists the id on that side; and an id is in the mapping, once,
\* iff some event lists it on a side.
C21_FirstSeenMessagePair ==
    Loaded =>
        /\ \A k \in 1..Len(metadata.messages) :
             /\ IsFirstSeen(metadata.messages[k].send_task, "send_msg", metadata.messages[k].id)
             /\ IsFirstSeen(metadata.messages[k].recv_task, "rec_msg", metadata.messages[k].id)
             /\ \A l \in 1..Len(metadata.messages) :
                    metadata.messages[l].id = metadata.messages[k].id => l = k
        /\ \A id \in {"m1", "m2"} :
             (\E k \in 1..Len(metadata.messages) : metadata.messages[k].id = id)
                 <=> (Listing("send_msg", id) # {} \/ Listing("rec_msg", id) # {})

\* m1 is sent by A and later by B, and its pair keeps the sender A
C21_Witness ==
    /\ Loaded
    /\ Len(log) = 2
    /\ log[1].tran = "A" /\ InSeq("m1", log[1].send_msg)
    /\ log[2].tran = "B" /\ InSeq("m1", log[2].send_msg)
    /\ \E k \in 1..Len(metadata.messages) :
          /\ metadata.messages[k].id = "m1"
          /\ metadata.messages[k].send_task = "A"
          /\ metadata.messages[k].recv_task = None

(***************************************************************************)
(* Properties of apply_ce_pnr (specification SpecRepair)                   *)
(***************************************************************************)
Calls == 1..Len(trace)

\* the net call i returned
RepairedNet(i) == heap.nets[trace[i].repaired.net]

\* the net of call i lacked the place of msg or an arc of a transition that
\* carries its sender or receiver
LackedMessagePart(i, msg) ==
    LET net == trace[i].given.net
        named == {p \in net.places : p.name = MsgPlaceName(msg.id)}
    IN  \/ named = {}
        \/ \E t \in net.transitions :
              \/ t.label = msg.send_task /\ \A p \in named : <<t, p>> \notin BagToSet(net.arcs)
              \/ t.label = msg.recv_task /\ \A p \in named : <<p, t>> \notin BagToSet(net.arcs)

\* C23: when the net passed to apply_ce_pnr lacks a message place or a send
\* or receive arc, then in the net it returns every message whose sender labels a
\* transition has its place MSG:<id> and an arc to it from each transition
\* labelled with the sender, and every message whose receiver labels a
\* transition has the place and an arc from it to each transition labelled
\* with the receiver.
C23_MessageArcsRepaired ==
    \A i \in Calls : \A k \in 1..Len(metadata.messages) :
        LET msg == metadata.messages[k]
            net == RepairedNet(i)
            named == {p \in net.places : p.name = MsgPlaceName(msg.id)}
            senders == {t \in net.transitions : msg.send_task # None /\ t.label = msg.send_task}
            receivers == {t \in net.transitions : msg.recv_task # None /\ t.label = msg.recv_task}
        IN  (LackedMessagePart(i, msg) /\ senders \cup receivers # {}) =>
                /\ named # {}
                /\ \A t \in senders : \E p \in named : <<t, p>> \in BagToSet(net.arcs)
                /\ \A t \in receivers : \E p \in named : <<p, t>> \in BagToSet(net.arcs)

(***************************************************************************)
(* Properties of the names (specification SpecNames)                       *)
(***************************************************************************)
\* the integrated net and every net apply_ce_pnr returned
NamedNets == {heap.nets[i] : i \in 1..Len(heap.nets)}

\* C28: in N0 and in every repaired net no two places have one name and no two
\* transitions have one name, whatever the departments, message ids and
\* resource ids are called; and a place whose name starts with RES: is the
\* place of a resource of the metadata.
C28_UniqueNames ==
    \A net \in NamedNets :
        /\ \A p, q \in net.places : p.name = q.name => p = q
        /\ \A t, u \in net.transitions : t.name = u.name => t = u
        /\ \A p \in net.places :
              StartsWithRes(p.name) =>
                  \E k \in 1..Len(metadata.resources) :
                      p.name = ResPlaceName(metadata.resources[k].id)

====
